---------------------------- MODULE Spec2Model ----------------------------
(***************************************************************************)
(* A model of the ec2-test-apps rhythm tooling:                            *)
(*   - the Rhythm Controller web service (rhythm_service.py),              *)
(*   - the Satirical Fix Generator web service                             *)
(*     (satirical_fix_generator.py),                                       *)
(*   - the SongStructureAnalyzer pure functions (song_structure.py),       *)
(*   - the SongSimulator / RhythmErrorTrigger of the demo driver           *)
(*     (demo_rhythm_errors.py).                                            *)
(* The four are separate programs.  The variable `service` says which one  *)
(* a behaviour is a run of; the other programs' variables then keep their  *)
(* initial values.  The rhythm service is modelled twice: with each        *)
(* request handled in one step ("rhythm"), and with the /api/beat-trigger  *)
(* handler split at its accesses to the shared controller ("threads").     *)
(***************************************************************************)
EXTENDS Integers, Sequences, FiniteSets, TLC

VARIABLES
    service,          \* which program this behaviour runs
    \* ---- rhythm_service.py: RhythmController + the last request handled
    current_song,     \* RhythmController.current_song
    current_tempo,    \* RhythmController.current_tempo
    current_section,  \* RhythmController.current_section
    beat_count,       \* RhythmController.beat_count
    rsReq,            \* the last request the rhythm service handled
    rsResp,           \* the answer it gave
    rsPost,           \* the POST to the error generator made while handling it
    \* ---- satirical_fix_generator.py
    deepseek_client,  \* TRUE iff DEEPSEEK_API_KEY was set at start-up
    fgReq,            \* the last request the fix generator handled
    fgResp,           \* the answer it gave
    fgCall,           \* what generate_satirical_fix did while handling it
    \* ---- song_structure.py, called directly
    fnCall,           \* the last classification call: function and arguments
    fnRet,            \* the label it returned
    analysis,         \* the last analyze() call and the structure it gave
    anLookup,         \* the last get_section_at_time call on that structure
    \* ---- demo_rhythm_errors.py: SongSimulator, RhythmErrorTrigger, run_demo
    simulator_tempo,  \* SongSimulator.tempo
    song_structure,   \* the song structure in use, and how it was built
    section_info,     \* the last get_section_at_beat call and its result
    trigger_count,    \* RhythmErrorTrigger.trigger_count
    dPc,              \* where run_demo is
    use_spotify,      \* run_demo's use_spotify
    error_gen_healthy,\* what check_service_health() returned
    slogan_healthy,   \* what check_slogan_server_health() returned
    spotify_requests, \* HTTP requests run_demo's SpotifyClient has sent
    total_beats,      \* run_demo's total_beats
    beat,             \* the loop variable of run_demo
    triggers_sent,    \* run_demo's triggers_sent
    dPost,            \* the last call of RhythmErrorTrigger.trigger_error
    interrupted,      \* where Ctrl+C reached run_demo (None: nowhere)
    \* ---- the trigger operations of the rhythm service and of the demo
    trigger_calls,    \* calls of trigger_error made so far
    post_attempts,    \* requests.post calls to /api/rhythm-trigger made so far
    \* ---- rhythm_service.py with /api/beat-trigger handlers as threads
    dispatch,         \* "single": one request at a time; "threaded": concurrent
    thPc,             \* where each handler thread is in beat_trigger()
    thReq,            \* the section and beat_num each thread read from its request
    thPost,           \* the POST each thread made for its request
    \* ---- demo_rhythm_errors.py: SpotifyClient
    client_credentials, \* TRUE iff client_id and client_secret are both set
    access_token,     \* SpotifyClient.access_token
    token_expires,    \* SpotifyClient.token_expires
    now,              \* time.time(), in whole time units
    spCall            \* the last SpotifyClient method call and what it did

rsVars == <<current_song, current_tempo, current_section, beat_count,
            rsReq, rsResp, rsPost>>
fgVars == <<deepseek_client, fgReq, fgResp, fgCall>>
fnVars == <<fnCall, fnRet, analysis, anLookup>>
simVars == <<simulator_tempo, song_structure, section_info>>
runVars == <<trigger_count, dPc, use_spotify, error_gen_healthy, slogan_healthy,
             spotify_requests, total_beats,
             beat, triggers_sent, dPost, interrupted>>
ctVars == <<trigger_calls, post_attempts>>
thVars == <<dispatch, thPc, thReq, thPost>>
spVars == <<client_credentials, access_token, token_expires, now, spCall>>
vars == <<service, rsVars, fgVars, fnVars, simVars, runVars, ctVars, thVars, spVars>>

-----------------------------------------------------------------------------
(* Values shared by the programs *)

\* Python's None / a JSON null / a key that is absent
None == "None"

\* The five labels of a song section
Labels == {"intro", "verse", "chorus", "bridge", "outro"}

\* The error patterns a trigger payload may name
ErrorTypes == {"basic", "business", "chaotic", "philosophical", "minimal"}

\* What the error generator (or the network) does with one POST: a 200 whose
\* body is a JSON object, a 200 whose body is other JSON, another status, a
\* timeout, a refused connection
PostOutcomes == {"200_object", "200_not_object", "non200", "timeout", "connection_error"}

-----------------------------------------------------------------------------
(* song_structure.py: SongStructureAnalyzer.                               *)
(* Times are seconds.  The percentages of _estimate_structure are held in  *)
(* hundredths, and the durations the model draws are multiples of 20 s, so *)
(* that every start and duration it computes is a whole number.            *)

\* A variant of _classify_section whose bridge rule reads >= (the lower
\* bound included)
ClassifySectionInclusiveBridge(section_num, loudness, tempo, total_sections) ==
    IF section_num = 0 THEN "intro"
    ELSE IF section_num = total_sections - 1 THEN "outro"
    ELSE IF loudness > -10 THEN "chorus"
    ELSE IF 5 * section_num >= 3 * total_sections /\ section_num < total_sections - 1
         THEN "bridge"
    ELSE "verse"

\* A variant of _classify_section without the final `return "verse"`
ClassifySectionNoDefault(section_num, loudness, tempo, total_sections) ==
    IF section_num = 0 THEN "intro"
    ELSE IF section_num = total_sections - 1 THEN "outro"
    ELSE IF loudness > -10 THEN "chorus"
    ELSE IF 5 * section_num > 3 * total_sections /\ section_num < total_sections - 1
         THEN "bridge"
    ELSE "None"

\* _classify_section: the ordered rules.  total_sections * 0.6 is compared
\* exactly (section_num > 0.6 * total_sections  <=>  5 * section_num >
\* 3 * total_sections; the float product agrees for every count below 10^5).
ClassifySection(section_num, loudness, tempo, total_sections) ==
    IF section_num = 0 THEN "intro"
    ELSE IF section_num = total_sections - 1 THEN "outro"
    ELSE IF loudness > -10 THEN "chorus"
    ELSE IF 5 * section_num > 3 * total_sections /\ section_num < total_sections - 1
         THEN "bridge"
    ELSE "verse"

\* A section of an analysis result: {'start', 'duration', 'type'} (the
\* loudness/tempo/energy/danceability entries are copied through and read by
\* nothing).
Section(start, duration, type) ==
    [start |-> start, duration |-> duration, type |-> type]

\* _default_structure
DefaultStructure ==
    << Section(0, 30, "verse"),
       Section(30, 20, "chorus"),
       Section(50, 30, "verse"),
       Section(80, 20, "chorus"),
       Section(100, 20, "bridge"),
       Section(120, 30, "chorus") >>

\* The table of _estimate_structure, start_pct and duration_pct in hundredths
EstimatePercentages ==
    << [type |-> "intro",  start_pct |-> 0,  duration_pct |-> 5],
       [type |-> "verse",  start_pct |-> 5,  duration_pct |-> 15],
       [type |-> "chorus", start_pct |-> 20, duration_pct |-> 10],
       [type |-> "verse",  start_pct |-> 30, duration_pct |-> 15],
       [type |-> "chorus", start_pct |-> 45, duration_pct |-> 10],
       [type |-> "bridge", start_pct |-> 60, duration_pct |-> 15],
       [type |-> "chorus", start_pct |-> 75, duration_pct |-> 15],
       [type |-> "outro",  start_pct |-> 90, duration_pct |-> 10] >>

\* _estimate_structure(audio_features, duration): percentages times duration.
\* Durations are whole seconds that are multiples of 20 and the percentages
\* multiples of 5, so every product is a whole number and \div is exact.
EstimateStructure(duration) ==
    [i \in 1..Len(EstimatePercentages) |->
        Section((EstimatePercentages[i].start_pct * duration) \div 100,
                (EstimatePercentages[i].duration_pct * duration) \div 100,
                EstimatePercentages[i].type)]

\* _analyze_from_spotify(analysis): no sections gives the default structure,
\* otherwise each section is classified by its index and loudness.
AnalyzeFromSpotify(sections) ==
    IF sections = <<>> THEN DefaultStructure
    ELSE [i \in 1..Len(sections) |->
            Section(sections[i].start, sections[i].duration,
                    ClassifySection(i - 1, sections[i].loudness,
                                    sections[i].tempo, Len(sections)))]

\* song_data as the analyzer and the controller read it.
\*   audio_features:   "absent" | "list" | "object"
\*   has_tempo, tempo: audio_features['tempo'], when audio_features is an object
\*   spotify_analysis: "absent" | "list" | "object"
\*   sections:         spotify_analysis['sections'], when it is an object
\*   duration_ms:      song_data['duration_ms'] (180000 when absent)
SongData(af, ht, t, sa, secs, dur) ==
    [audio_features |-> af, has_tempo |-> ht, tempo |-> t,
     spotify_analysis |-> sa, sections |-> secs, duration_ms |-> dur]

\* analyze(song_data).  raised: an AttributeError from calling .get on a list.
Analyze(song_data) ==
    IF song_data.spotify_analysis = "list"
        THEN [raised |-> TRUE, structure |-> <<>>]
    ELSE IF song_data.spotify_analysis = "object"
        THEN [raised |-> FALSE, structure |-> AnalyzeFromSpotify(song_data.sections)]
    ELSE IF song_data.audio_features = "list"
        THEN [raised |-> TRUE, structure |-> <<>>]
    ELSE [raised |-> FALSE,
          structure |-> EstimateStructure(song_data.duration_ms \div 1000)]

\* get_section_at_time(structure, time_seconds)
RECURSIVE SectionAtTimeFrom(_, _, _)
SectionAtTimeFrom(structure, i, time_seconds) ==
    IF i > Len(structure)
        THEN IF structure # <<>> THEN structure[Len(structure)].type ELSE "verse"
    ELSE IF structure[i].start <= time_seconds
            /\ time_seconds < structure[i].start + structure[i].duration
        THEN structure[i].type
    ELSE SectionAtTimeFrom(structure, i + 1, time_seconds)

GetSectionAtTime(structure, time_seconds) ==
    SectionAtTimeFrom(structure, 1, time_seconds)

-----------------------------------------------------------------------------
(* rhythm_service.py: RhythmController and the Flask handlers.            *)

\* The tempos a request may carry in audio_features.tempo
TempoInputs == {0, 60, 120}

\* The section values a /api/beat-trigger request may carry
SectionInputs == Labels \cup {"pre-chorus", None}

\* The largest beat_num a /api/beat-trigger request carries
MaxBeatNum == 2

\* One Spotify section list for the song data of a request
ExampleSections ==
    << [start |-> 0,  duration |-> 10, loudness |-> -20, tempo |-> 120],
       [start |-> 10, duration |-> 20, loudness |-> -5,  tempo |-> 120],
       [start |-> 30, duration |-> 10, loudness |-> -20, tempo |-> 120] >>

\* The song data the requests of the model carry
RsSongs ==
    { SongData("object", TRUE, t, sa, <<>>, 180000) :
        t \in TempoInputs, sa \in {"absent", "list"} }
    \cup { SongData(af, FALSE, 0, sa, <<>>, 180000) :
        af \in {"absent", "list", "object"}, sa \in {"absent", "list"} }
    \cup { SongData("object", TRUE, t, "object", secs, 180000) :
        t \in TempoInputs, secs \in {<<>>, ExampleSections} }

\* What request.get_json() gives:
\*   "invalid"       it raises (the body is not JSON)
\*   "null", "empty_object", "empty_list"   falsy values
\*   "list"          a non-empty JSON array
\*   "object"        a non-empty JSON object
JsonKinds == {"invalid", "null", "empty_object", "empty_list", "list", "object"}

NoSong == SongData("absent", FALSE, 0, "absent", <<>>, 180000)

\* A request: the endpoint and what its body holds.
\*   song:      the song data (the body itself for /api/analyze-song,
\*              body['song_data'] for /api/start-rhythm-mode)
\*   song_kind: "absent" | "list" | "object", of body['song_data']
\*   section, has_beat_num, beat_num: of a /api/beat-trigger body
Request(endpoint, json, song_kind, song, section, has_beat_num, beat_num) ==
    [endpoint |-> endpoint, json |-> json, song_kind |-> song_kind, song |-> song,
     section |-> section, has_beat_num |-> has_beat_num, beat_num |-> beat_num]

NoRequest == Request("none", "null", "absent", NoSong, None, FALSE, 0)

\* A response.
\*   status:  the HTTP status
\*   body:    "json" (a jsonify'd object) or "html" (Flask's own error page,
\*            sent when an exception leaves the view function)
\*   error:   whether the JSON body carries an 'error' message string
\*   escaped: an exception left the view function
Response(status, body, error, escaped, fields) ==
    [status |-> status, body |-> body, error |-> error, escaped |-> escaped,
     fields |-> fields]

NoFields ==
    [tempo |-> 0, beat_interval |-> 0, structure |-> <<>>, has_structure |-> FALSE,
     error_type |-> None, section |-> None, beat |-> 0, triggered |-> FALSE,
     beat_count |-> 0, current_song |-> None, current_section |-> None]

NoResponse == Response(0, "none", FALSE, FALSE, NoFields)

\* return jsonify({"error": ...}), status
ErrorResponse(status) == Response(status, "json", TRUE, FALSE, NoFields)

\* An exception that no try block of the view function catches: Flask
\* answers with its own 500 page.
EscapedResponse == Response(500, "html", FALSE, TRUE, NoFields)

\* The POST of one request to the error generator.
NoPost ==
    [sent |-> FALSE, outcome |-> None, error_type |-> None, beat |-> 0,
     section |-> None, tempo |-> 0, returned |-> None]

\* A variant of get_error_type_for_section with the demo driver's pairing of
\* intro with basic
GetErrorTypeIntroBasic(section) ==
    CASE section = "intro"  -> "basic"
      [] section = "verse"  -> "basic"
      [] section = "chorus" -> "business"
      [] section = "bridge" -> "chaotic"
      [] section = "outro"  -> "philosophical"
      [] OTHER              -> "basic"

\* get_error_type_for_section: section_map.get(section, "basic")
GetErrorTypeForSection(section) ==
    CASE section = "intro"  -> "minimal"
      [] section = "verse"  -> "basic"
      [] section = "chorus" -> "business"
      [] section = "bridge" -> "chaotic"
      [] section = "outro"  -> "philosophical"
      [] OTHER              -> "basic"

\* Microseconds in a minute: the beat interval 60.0 / tempo is held in
\* whole microseconds.
MicrosPerMinute == 60000000

\* Variant: the interval of a tempo twice as fast
CalculateBeatIntervalHalved(tempo) ==
    IF tempo = 0 THEN [raised |-> TRUE, micros |-> 0]
    ELSE [raised |-> FALSE, micros |-> MicrosPerMinute \div (2 * tempo)]

\* calculate_beat_interval: 60.0 / self.current_tempo; a tempo of 0 raises
\* ZeroDivisionError.
CalculateBeatInterval(tempo) ==
    IF tempo = 0 THEN [raised |-> TRUE, micros |-> 0]
    ELSE [raised |-> FALSE, micros |-> MicrosPerMinute \div tempo]

\* The most calls of trigger_error in one run of the rhythm service
MaxTriggerCalls == 3

\* A variant of trigger_error's POST that sends the payload again after a
\* timeout or a refused connection
PostAttemptsResend(outcome) ==
    IF outcome \in {"timeout", "connection_error"} THEN 2 ELSE 1

\* The requests.post calls one call of RhythmController.trigger_error makes:
\* one, in no loop, whatever becomes of it
PostAttempts(outcome) == 1

\* What RhythmController.trigger_error returns.  The method has no return
\* statement: it gives None on every path that does not raise.
TriggerErrorReturn(outcome) == None

\* RhythmController.trigger_error(error_type, beat_num): the payload it
\* POSTs and how the call ends.  A 200 whose JSON body is not an object makes
\* result.get raise AttributeError, which the except clause
\* (RequestException only) does not catch.
TriggerError(error_type, beat_num, section, tempo, outcome) ==
    [sent |-> TRUE, outcome |-> outcome, error_type |-> error_type,
     beat |-> beat_num, section |-> section, tempo |-> tempo,
     returned |-> IF outcome = "200_not_object" THEN "raised"
                  ELSE TriggerErrorReturn(outcome)]

\* RhythmController.analyze_song(song_data): the tempo it stores and the
\* structure it returns.  raised: audio_features is not an object, so
\* audio_features.get raises before current_tempo is assigned (the try block
\* covers the structure analysis only).
ControllerAnalyzeSong(song_data) ==
    IF song_data.audio_features = "list"
        THEN [raised |-> TRUE, tempo |-> 0, has_structure |-> FALSE, structure |-> <<>>]
    ELSE [raised |-> FALSE,
          tempo |-> IF song_data.has_tempo THEN song_data.tempo ELSE 120,
          has_structure |-> ~Analyze(song_data).raised,
          structure |-> Analyze(song_data).structure]

\* A variant in which every request handled counts as a beat
RsFrameCountingBeats ==
    /\ beat_count' = 1
    /\ UNCHANGED <<service, current_song, fgVars, fnVars, simVars, runVars,
                   thVars, spVars>>

\* The handlers change neither current_song nor beat_count.
RsFrame ==
    UNCHANGED <<service, current_song, beat_count, fgVars, fnVars, simVars, runVars,
                thVars, spVars>>

\* The body of analyze_song() and of start_rhythm_mode() from the call of
\* rhythm_controller.analyze_song on: the new tempo is stored, then
\* calculate_beat_interval() is evaluated inside the handler's try block.
RsAnalyzeAndAnswer(req, song_data) ==
    LET r == ControllerAnalyzeSong(song_data) IN
    /\ rsReq' = req
    /\ rsPost' = NoPost
    /\ UNCHANGED <<current_section, ctVars>>
    /\ IF r.raised
          THEN /\ rsResp' = ErrorResponse(500)
               /\ UNCHANGED current_tempo
          ELSE /\ current_tempo' = r.tempo
               /\ rsResp' =
                    IF CalculateBeatInterval(r.tempo).raised
                        THEN ErrorResponse(500)
                    ELSE Response(200, "json", FALSE, FALSE,
                            [NoFields EXCEPT
                                !.tempo = r.tempo,
                                !.beat_interval = CalculateBeatInterval(r.tempo).micros,
                                !.has_structure = r.has_structure,
                                !.structure = r.structure])

\* A request answered without touching the controller
RsAnswerOnly(req, resp) ==
    /\ rsReq' = req
    /\ rsResp' = resp
    /\ rsPost' = NoPost
    /\ UNCHANGED <<current_tempo, current_section, ctVars>>

\* POST /api/analyze-song
AnalyzeSongRequest ==
    /\ service = "rhythm"
    /\ RsFrame
    /\ \E json \in JsonKinds :
        \E song \in (IF json = "object" THEN RsSongs ELSE {NoSong}) :
          LET req == Request("analyze-song", json, "absent", song, None, FALSE, 0) IN
          CASE json = "invalid" -> RsAnswerOnly(req, ErrorResponse(500))
            [] json \in {"null", "empty_object", "empty_list"} ->
                    RsAnswerOnly(req, ErrorResponse(400))
            [] json = "list" -> RsAnswerOnly(req, ErrorResponse(500))
            [] OTHER -> RsAnalyzeAndAnswer(req, song)

\* POST /api/start-rhythm-mode
StartRhythmModeRequest ==
    /\ service = "rhythm"
    /\ RsFrame
    /\ \E json \in JsonKinds :
        \E kind \in (IF json = "object" THEN {"absent", "list", "object"} ELSE {"absent"}) :
         \E song \in (IF kind = "object" THEN RsSongs ELSE {NoSong}) :
          LET req == Request("start-rhythm-mode", json, kind, song, None, FALSE, 0) IN
          CASE json \in {"invalid", "null", "empty_list", "list"} ->
                    RsAnswerOnly(req, ErrorResponse(500))
            [] kind = "list" -> RsAnswerOnly(req, ErrorResponse(500))
            [] OTHER -> RsAnalyzeAndAnswer(req, song)

\* POST /api/beat-trigger
BeatTriggerRequest ==
    /\ service = "rhythm"
    /\ trigger_calls < MaxTriggerCalls
    /\ RsFrame
    /\ \E json \in JsonKinds :
        \E sec \in (IF json = "object" THEN SectionInputs ELSE {None}) :
         \E hb \in (IF json = "object" THEN BOOLEAN ELSE {FALSE}) :
          \E bn \in (IF hb THEN 1..MaxBeatNum ELSE {0}) :
           \E outcome \in PostOutcomes :
            LET req == Request("beat-trigger", json, "absent", NoSong, sec, hb, bn)
                section == IF sec = None THEN "verse" ELSE sec
                beat_num == IF hb THEN bn ELSE 1
                error_type == GetErrorTypeForSection(section)
                post == TriggerError(error_type, beat_num, section, current_tempo, outcome)
            IN
            IF json \in {"invalid", "null", "empty_list", "list"}
                THEN RsAnswerOnly(req, ErrorResponse(500))
            ELSE /\ rsReq' = req
                 /\ current_section' = section
                 /\ UNCHANGED current_tempo
                 /\ rsPost' = post
                 /\ trigger_calls' = trigger_calls + 1
                 /\ post_attempts' = post_attempts + PostAttempts(outcome)
                 /\ rsResp' =
                      IF post.returned = "raised" THEN ErrorResponse(500)
                      ELSE Response(200, "json", FALSE, FALSE,
                              [NoFields EXCEPT
                                  !.triggered = TRUE,
                                  !.error_type = error_type,
                                  !.section = section,
                                  !.beat = beat_num])

\* GET /api/status: no try block; calculate_beat_interval() may raise.
StatusRequest ==
    /\ service = "rhythm"
    /\ RsFrame
    /\ LET req == Request("status", "null", "absent", NoSong, None, FALSE, 0) IN
       RsAnswerOnly(req,
          IF CalculateBeatInterval(current_tempo).raised THEN EscapedResponse
          ELSE Response(200, "json", FALSE, FALSE,
                  [NoFields EXCEPT
                      !.tempo = current_tempo,
                      !.beat_interval = CalculateBeatInterval(current_tempo).micros,
                      !.beat_count = beat_count,
                      !.current_song = current_song,
                      !.current_section = current_section]))

\* GET /health of the rhythm service
RsHealthRequest ==
    /\ service = "rhythm"
    /\ RsFrame
    /\ RsAnswerOnly(Request("health", "null", "absent", NoSong, None, FALSE, 0),
                    Response(200, "json", FALSE, FALSE, NoFields))

\* RhythmController.__init__ and an idle service
RsInit ==
    /\ current_song = None
    /\ current_tempo = 120
    /\ current_section = "verse"
    /\ beat_count = 0
    /\ rsReq = NoRequest
    /\ rsResp = NoResponse
    /\ rsPost = NoPost

NextRhythm ==
    \/ AnalyzeSongRequest
    \/ StartRhythmModeRequest
    \/ BeatTriggerRequest
    \/ StatusRequest
    \/ RsHealthRequest

-----------------------------------------------------------------------------
(* rhythm_service.py: beat_trigger() run by handler threads.               *)
(* app.run() is given no `threaded` argument; whether requests are handled *)
(* one at a time or by concurrent threads is the server's choice, held in  *)
(* `dispatch`.  A handler is split where it touches the shared controller: *)
(* it reads its request into locals, writes current_section, builds the    *)
(* payload from current_section and current_tempo and POSTs it, answers.   *)
(* thPc: "idle", "write", "trigger", "answer".                             *)

\* The handler threads
Threads == {1, 2}

\* The section values the concurrent requests carry (None: no 'section' key)
ThreadSections == {"chorus", None}

\* The beat_num values the concurrent requests carry
ThreadBeatNums == {1, 2}

\* What a thread holds of its request: section and beat_num, defaults applied
ThReq(section, beat_num) == [section |-> section, beat_num |-> beat_num]

\* Threads busy with a request
Busy == { t \in Threads : thPc[t] # "idle" }

ThFrame ==
    UNCHANGED <<service, dispatch, current_song, beat_count, fgVars, fnVars, simVars,
                runVars, spVars>>

\* data = request.get_json(); section = data.get('section', 'verse');
\* beat_num = data.get('beat_num', 1).  Under single dispatch a request is
\* taken up only when no other is being handled.
BtReceive(t) ==
    /\ service = "threads"
    /\ thPc[t] = "idle"
    /\ dispatch = "single" => Busy = {}
    /\ trigger_calls + Cardinality(Busy) < MaxTriggerCalls
    /\ ThFrame
    /\ \E sec \in ThreadSections, bn \in ThreadBeatNums :
        thReq' = [thReq EXCEPT ![t] = ThReq(IF sec = None THEN "verse" ELSE sec, bn)]
    /\ thPc' = [thPc EXCEPT ![t] = "write"]
    /\ thPost' = [thPost EXCEPT ![t] = NoPost]
    /\ UNCHANGED <<current_tempo, current_section, rsReq, rsResp, rsPost, ctVars>>

\* A variant of the handler without the write to current_section
BtWriteSectionSkipped(t) ==
    /\ service = "threads"
    /\ thPc[t] = "write"
    /\ ThFrame
    /\ thPc' = [thPc EXCEPT ![t] = "trigger"]
    /\ UNCHANGED <<current_section, current_tempo, rsReq, rsResp, rsPost, thReq,
                   thPost, ctVars>>

\* rhythm_controller.current_section = section
BtWriteSection(t) ==
    /\ service = "threads"
    /\ thPc[t] = "write"
    /\ ThFrame
    /\ current_section' = thReq[t].section
    /\ thPc' = [thPc EXCEPT ![t] = "trigger"]
    /\ UNCHANGED <<current_tempo, rsReq, rsResp, rsPost, thReq, thPost, ctVars>>

\* error_type = get_error_type_for_section(section), from the local;
\* trigger_error(error_type, beat_num) builds the payload from
\* self.current_section and self.current_tempo and POSTs it.
BtTrigger(t) ==
    /\ service = "threads"
    /\ thPc[t] = "trigger"
    /\ ThFrame
    /\ \E outcome \in PostOutcomes :
        /\ thPost' = [thPost EXCEPT ![t] =
                        TriggerError(GetErrorTypeForSection(thReq[t].section),
                                     thReq[t].beat_num, current_section,
                                     current_tempo, outcome)]
        /\ post_attempts' = post_attempts + PostAttempts(outcome)
    /\ trigger_calls' = trigger_calls + 1
    /\ thPc' = [thPc EXCEPT ![t] = "answer"]
    /\ UNCHANGED <<current_tempo, current_section, rsReq, rsResp, rsPost, thReq>>

\* return jsonify({... "error_type": error_type, "section": section, ...}),
\* or the 500 of the except clause when trigger_error raised
BtAnswer(t) ==
    /\ service = "threads"
    /\ thPc[t] = "answer"
    /\ ThFrame
    /\ rsReq' = Request("beat-trigger", "object", "absent", NoSong,
                        thReq[t].section, TRUE, thReq[t].beat_num)
    /\ rsPost' = thPost[t]
    /\ rsResp' = IF thPost[t].returned = "raised" THEN ErrorResponse(500)
                 ELSE Response(200, "json", FALSE, FALSE,
                         [NoFields EXCEPT
                             !.triggered = TRUE,
                             !.error_type = GetErrorTypeForSection(thReq[t].section),
                             !.section = thReq[t].section,
                             !.beat = thReq[t].beat_num])
    /\ thPc' = [thPc EXCEPT ![t] = "idle"]
    /\ UNCHANGED <<current_tempo, current_section, thReq, thPost, ctVars>>

\* No request is being handled
ThInit ==
    /\ dispatch \in {"single", "threaded"}
    /\ thPc = [t \in Threads |-> "idle"]
    /\ thReq = [t \in Threads |-> ThReq("verse", 1)]
    /\ thPost = [t \in Threads |-> NoPost]

NextThreads ==
    \/ \E t \in Threads : BtReceive(t)
    \/ \E t \in Threads : BtWriteSection(t)
    \/ \E t \in Threads : BtTrigger(t)
    \/ \E t \in Threads : BtAnswer(t)

-----------------------------------------------------------------------------
(* satirical_fix_generator.py                                              *)
(* A text is a sequence of tokens: "{", "}", ":" and the pieces between    *)
(* them ("null.0" is the first piece of the first template, and so on).    *)

\* FALLBACK_FIXES, split at every brace and colon
FALLBACK_FIXES ==
    << \* def fix_null_pointer(): ... Inspired by: {slogan} ...
       << "null.0", ":", "null.1", ":", "null.2", "{", "slogan", "}", "null.3",
          ":", "null.4", ":", "null.5", ":", "null.6", ":", "null.7" >>,
       \* async function fixTimeout() { /* ... Based on wisdom: {slogan} */ ... }
       << "timeout.0", "{", "timeout.1", ":", "timeout.2", "{", "slogan", "}",
          "timeout.3", "{", "timeout.4", ":", "timeout.5", "}", "timeout.6", "}",
          "timeout.7" >>,
       \* class HeapOverflowHandler: ... Philosophy: {slogan} ...
       << "heap.0", ":", "heap.1", ":", "heap.2", "{", "slogan", "}", "heap.3",
          ":", "heap.4", ":", "heap.5", ":", "heap.6", ":", "heap.7" >> >>

\* The slogans a request may carry (the empty one included)
Slogans ==
    { <<>>, <<"Off by one">>, <<"{", "x", "}">>, <<"}", ":">> }

\* The error strings a request may carry
ErrorMessages == { <<>>, <<"NullPointerException">> }

\* str.format: the index of the "}" that closes the replacement field whose
\* format spec starts at i, nested braces counted; 0 when the text ends first.
RECURSIVE ClosingBrace(_, _, _)
ClosingBrace(text, i, depth) ==
    IF i > Len(text) THEN 0
    ELSE IF text[i] = "{" THEN ClosingBrace(text, i + 1, depth + 1)
    ELSE IF text[i] = "}"
        THEN IF depth = 1 THEN i ELSE ClosingBrace(text, i + 1, depth - 1)
    ELSE ClosingBrace(text, i + 1, depth)

\* str.format: the index at which the field name starting at i ends (a "{",
\* "}" or ":"), Len(text) + 1 when the text ends first.
RECURSIVE FieldNameEnd(_, _)
FieldNameEnd(text, i) ==
    IF i > Len(text) THEN i
    ELSE IF text[i] \in {"{", "}", ":"} THEN i
    ELSE FieldNameEnd(text, i + 1)

\* text.format(slogan=slogan) from token i on, `out` being what is already
\* produced.  "{{" and "}}" are literal braces; "{name}" and "{name:spec}"
\* are replacement fields, the name looked up among the keyword arguments
\* before the spec is read; the value is copied in as it is.  A non-empty
\* spec for the slogan is answered with ValueError (no width or alignment is
\* modelled).
RECURSIVE FormatFrom(_, _, _, _)
FormatFrom(text, i, slogan, out) ==
    IF i > Len(text) THEN [raised |-> None, text |-> out]
    ELSE IF text[i] = "{" THEN
        IF i + 1 <= Len(text) /\ text[i + 1] = "{"
            THEN FormatFrom(text, i + 2, slogan, Append(out, "{"))
        ELSE
            LET j == FieldNameEnd(text, i + 1)
                name == SubSeq(text, i + 1, j - 1)
                close == IF j <= Len(text) /\ text[j] = ":"
                            THEN ClosingBrace(text, j + 1, 1) ELSE j
            IN
            IF j > Len(text) THEN [raised |-> "ValueError", text |-> <<>>]
            ELSE IF text[j] = "{" THEN [raised |-> "ValueError", text |-> <<>>]
            ELSE IF close = 0 THEN [raised |-> "ValueError", text |-> <<>>]
            ELSE IF name = <<>> THEN [raised |-> "IndexError", text |-> <<>>]
            ELSE IF name # <<"slogan">> THEN [raised |-> "KeyError", text |-> <<>>]
            ELSE IF close # j THEN [raised |-> "ValueError", text |-> <<>>]
            ELSE FormatFrom(text, close + 1, slogan, out \o slogan)
    ELSE IF text[i] = "}" THEN
        IF i + 1 <= Len(text) /\ text[i + 1] = "}"
            THEN FormatFrom(text, i + 2, slogan, Append(out, "}"))
        ELSE [raised |-> "ValueError", text |-> <<>>]
    ELSE FormatFrom(text, i + 1, slogan, Append(out, text[i]))

\* fix.format(slogan=slogan)
Format(text, slogan) == FormatFrom(text, 1, slogan, <<>>)

\* The fallback branch of generate_satirical_fix:
\* fix = random.choice(FALLBACK_FIXES); return fix.format(slogan=slogan)
FallbackFix(choice, slogan) == Format(FALLBACK_FIXES[choice], slogan)

\* What deepseek_client.chat.completions.create does:
\*   "raises"            the call fails
\*   "plain"             a reply without a code fence
\*   "fenced"            a reply holding a ```python / ```javascript block
\*   "fenced_unmatched"  a reply with ``` that the pattern does not match
\*   "no_content"        message.content is None
HostedOutcomes == {"raises", "plain", "fenced", "fenced_unmatched", "no_content"}

\* What generate_satirical_fix did.
\*   hosted_calls: chat-completion calls made;  choice: the fallback template
\*   drawn (0: none);  raised: the exception that left it (None: it returned)
FixCall(called, slogan, tone, hosted_calls, hosted, choice, raised, text) ==
    [called |-> called, slogan |-> slogan, tone |-> tone,
     hosted_calls |-> hosted_calls, hosted |-> hosted, choice |-> choice,
     raised |-> raised, text |-> text]

NoFixCall == FixCall(FALSE, <<>>, None, 0, None, 0, None, <<>>)

\* The error_type values a request may carry (None: the key is absent)
ErrorTypeInputs == {None, "business", "unknown"}

\* tone_modifiers.get(error_type, "absurdly over-engineered"), the request's
\* error_type defaulting to 'basic'
Tone(error_type) ==
    CASE error_type \in {None, "basic"} -> "straightforward but over-engineered"
      [] error_type = "business" -> "corporate buzzword-heavy with synergy"
      [] error_type = "chaotic" -> "increasingly unhinged and complex"
      [] error_type = "philosophical" -> "deeply philosophical and existential"
      [] OTHER -> "absurdly over-engineered"

\* generate_satirical_fix(error_message, slogan, error_type), the client
\* being configured or not, `hosted` what the hosted model does if called and
\* `choice` the template random.choice draws if the fallback is taken.
\* error_type only picks the tone of the prompt, which is built only when
\* the client is configured.
GenerateSatiricalFix(client, slogan, error_type, hosted, choice) ==
    IF ~client
        THEN FixCall(TRUE, slogan, None, 0, None, choice,
                     FallbackFix(choice, slogan).raised, FallbackFix(choice, slogan).text)
    ELSE IF hosted \in {"raises", "no_content"}
        \* `"```" in None` raises TypeError inside the try block
        THEN FixCall(TRUE, slogan, Tone(error_type), 1, hosted, choice,
                     FallbackFix(choice, slogan).raised, FallbackFix(choice, slogan).text)
    ELSE FixCall(TRUE, slogan, Tone(error_type), 1, hosted, 0, None,
                 CASE hosted = "plain" -> <<"reply.stripped">>
                   [] hosted = "fenced" -> <<"reply.first_block.stripped">>
                   [] OTHER -> <<"reply.with_fence.stripped">>)

FgRequest(json, error, slogan, error_type) ==
    [json |-> json, error |-> error, slogan |-> slogan, error_type |-> error_type]

FgResponse(status, success, has_error_message, fix, error, slogan, deepseek_available) ==
    [status |-> status, body |-> "json", success |-> success,
     has_error_message |-> has_error_message, fix |-> fix, error |-> error,
     slogan |-> slogan, deepseek_available |-> deepseek_available]

NoFgRequest == FgRequest("none", <<>>, <<>>, None)
NoFgResponse == FgResponse(0, FALSE, FALSE, <<>>, <<>>, <<>>, FALSE)

FgFrame ==
    UNCHANGED <<service, deepseek_client, rsVars, fnVars, simVars, runVars, ctVars,
                thVars, spVars>>

\* Variant: only the error is required
MissingFieldErrorOnly(error, slogan) == error = <<>>

\* `if not error or not slogan`: a key that is absent is read as None, and
\* None and '' are both falsy
MissingField(error, slogan) == error = <<>> \/ slogan = <<>>

\* POST /api/generate-fix
GenerateFixRequest ==
    /\ service = "fix"
    /\ FgFrame
    /\ \E json \in JsonKinds :
        \E error \in (IF json = "object" THEN ErrorMessages ELSE {<<>>}) :
         \E slogan \in (IF json = "object" THEN Slogans ELSE {<<>>}) :
          \E error_type \in (IF json = "object" THEN ErrorTypeInputs ELSE {None}) :
           \E hosted \in HostedOutcomes :
            \E choice \in 1..Len(FALLBACK_FIXES) :
            LET call == GenerateSatiricalFix(deepseek_client, slogan, error_type,
                                             hosted, choice) IN
            /\ fgReq' = FgRequest(json, error, slogan, error_type)
            /\ IF json \in {"invalid", "null", "empty_list", "list"}
                  \* request.json raises, or data.get raises AttributeError
                  THEN /\ fgResp' = FgResponse(500, FALSE, TRUE, <<>>, <<>>, <<>>, FALSE)
                       /\ fgCall' = NoFixCall
               ELSE IF MissingField(error, slogan)
                  THEN /\ fgResp' = FgResponse(400, FALSE, TRUE, <<>>, <<>>, <<>>, FALSE)
                       /\ fgCall' = NoFixCall
               ELSE /\ fgCall' = call
                    /\ fgResp' =
                         IF call.raised # None
                            THEN FgResponse(500, FALSE, TRUE, <<>>, <<>>, <<>>, FALSE)
                         ELSE FgResponse(200, TRUE, FALSE, call.text, error, slogan, FALSE)

\* GET /health of the fix generator
FgHealthRequest ==
    /\ service = "fix"
    /\ FgFrame
    /\ fgReq' = FgRequest("health", <<>>, <<>>, None)
    /\ fgResp' = FgResponse(200, FALSE, FALSE, <<>>, <<>>, <<>>, deepseek_client)
    /\ fgCall' = NoFixCall

\* Start-up: the client exists iff DEEPSEEK_API_KEY is set.
FgInit ==
    /\ deepseek_client \in BOOLEAN
    /\ fgReq = NoFgRequest
    /\ fgResp = NoFgResponse
    /\ fgCall = NoFixCall

NextFix ==
    \/ GenerateFixRequest
    \/ FgHealthRequest

-----------------------------------------------------------------------------
(* demo_rhythm_errors.py: SongSimulator and RhythmErrorTrigger.            *)
(* Times of Spotify data are milliseconds, tempos whole beats per minute:  *)
(* int(t / beat_duration) with beat_duration = 60.0 / tempo is             *)
(* (t_ms * tempo) \div 60000.                                              *)

\* TEMPO = int(os.getenv('TEMPO', '120'))
TEMPO == 120

\* BEATS_PER_TRIGGER
BEATS_PER_TRIGGER == 16

\* Milliseconds in a minute
MillisPerMinute == 60000

\* int(time / self.beat_duration)
BeatsIn(time_ms, tempo) == (time_ms * tempo) \div MillisPerMinute

\* A section of a demo structure
BeatSection(section, start_beat, end_beat, error_type, start_time) ==
    [section |-> section, start_beat |-> start_beat, end_beat |-> end_beat,
     error_type |-> error_type, start_time |-> start_time]

\* _map_section_to_error_type; int(total * 0.5) and int(total * 0.75) are
\* total \div 2 and (3 * total) \div 4.
MapSectionToErrorType(section_idx, total_sections, loudness) ==
    IF section_idx = 0 THEN "basic"
    ELSE IF section_idx >= total_sections - 2 THEN "philosophical"
    ELSE IF /\ total_sections \div 2 <= section_idx
            /\ section_idx < (3 * total_sections) \div 4
            /\ loudness > -8
        THEN "chaotic"
    ELSE IF loudness > -10 THEN "business"
    ELSE "basic"

\* A variant of _determine_section_name that names the quiet sections before
\* the middle of the song as the canonical structure does
DetermineSectionNamePreChorus(section_idx, total_sections, loudness) ==
    IF section_idx = 0 THEN "intro"
    ELSE IF section_idx >= total_sections - 2 THEN "outro"
    ELSE IF loudness > -10 THEN "chorus"
    ELSE IF /\ total_sections \div 2 <= section_idx
            /\ section_idx < (3 * total_sections) \div 4
        THEN "bridge"
    ELSE "pre-chorus"

\* _determine_section_name
DetermineSectionName(section_idx, total_sections, loudness) ==
    IF section_idx = 0 THEN "intro"
    ELSE IF section_idx >= total_sections - 2 THEN "outro"
    ELSE IF loudness > -10 THEN "chorus"
    ELSE IF /\ total_sections \div 2 <= section_idx
            /\ section_idx < (3 * total_sections) \div 4
        THEN "bridge"
    ELSE "verse"

\* create_song_structure: the canonical ten sections (start_time is not a
\* key of these; it is held as 0)
CreateSongStructure ==
    << BeatSection("intro",      0,   8,   "basic", 0),
       BeatSection("verse",      8,   24,  "basic", 0),
       BeatSection("pre-chorus", 24,  32,  "business", 0),
       BeatSection("chorus",     32,  48,  "business", 0),
       BeatSection("verse",      48,  64,  "basic", 0),
       BeatSection("pre-chorus", 64,  72,  "business", 0),
       BeatSection("chorus",     72,  88,  "business", 0),
       BeatSection("bridge",     88,  104, "chaotic", 0),
       BeatSection("chorus",     104, 120, "business", 0),
       BeatSection("outro",      120, 128, "philosophical", 0) >>

\* create_song_structure_from_spotify(analysis, features, track_duration_ms),
\* `sections` being analysis['sections'] and `tempo` features['tempo']
CreateSongStructureFromSpotify(sections, tempo) ==
    IF sections = <<>> THEN CreateSongStructure
    ELSE [i \in 1..Len(sections) |->
            BeatSection(
                DetermineSectionName(i - 1, Len(sections), sections[i].loudness),
                BeatsIn(sections[i].start, tempo),
                BeatsIn(sections[i].start, tempo) + BeatsIn(sections[i].duration, tempo),
                MapSectionToErrorType(i - 1, Len(sections), sections[i].loudness),
                sections[i].start)]

\* run_demo, no audio analysis: the canonical structure with the last
\* section's end_beat set to int((track_duration_ms / 1000.0) / beat_duration)
RescaledStructure(track_duration_ms, tempo) ==
    [CreateSongStructure EXCEPT
        ![Len(CreateSongStructure)].end_beat = BeatsIn(track_duration_ms, tempo)]

\* A variant of get_section_at_beat whose ranges are (start_beat, end_beat]
RECURSIVE SectionAtBeatFromEndIncluded(_, _, _)
SectionAtBeatFromEndIncluded(structure, i, beat_num) ==
    IF i > Len(structure) THEN Len(structure)
    ELSE IF structure[i].start_beat < beat_num /\ beat_num <= structure[i].end_beat
        THEN i
    ELSE SectionAtBeatFromEndIncluded(structure, i + 1, beat_num)

GetSectionAtBeatEndIncluded(structure, beat_num) ==
    SectionAtBeatFromEndIncluded(structure, 1, beat_num)

\* get_section_at_beat, as the index of the section it returns
RECURSIVE SectionAtBeatFrom(_, _, _)
SectionAtBeatFrom(structure, i, beat_num) ==
    IF i > Len(structure) THEN Len(structure)
    ELSE IF structure[i].start_beat <= beat_num /\ beat_num < structure[i].end_beat
        THEN i
    ELSE SectionAtBeatFrom(structure, i + 1, beat_num)

GetSectionAtBeat(structure, beat_num) == SectionAtBeatFrom(structure, 1, beat_num)

\* calculate_song_duration: total_beats
CalculateSongDuration(structure) == structure[Len(structure)].end_beat

\* A variant of the demo's trigger_error that sends the payload again after
\* a failure
DemoPostAttemptsResend(outcome) ==
    IF outcome \in {"200_object", "200_not_object"} THEN 1 ELSE 2

\* The requests.post calls one call of RhythmErrorTrigger.trigger_error
\* makes: one, in no loop, whatever becomes of it
DemoPostAttempts(outcome) == 1

\* "Expected Triggers" of the summary: (total_beats // BEATS_PER_TRIGGER) + 1
ExpectedTriggers(beats) == (beats \div BEATS_PER_TRIGGER) + 1

\* "Expected Error Triggers" of print_song_structure:
\* total_beats // BEATS_PER_TRIGGER
ExpectedErrorTriggers(beats) == beats \div BEATS_PER_TRIGGER

\* What RhythmErrorTrigger.trigger_error returns for each end of the POST
DemoTriggerReturn(outcome) ==
    IF outcome \in {"200_object", "200_not_object"} THEN "True" ELSE "False"

\* RhythmErrorTrigger.trigger_error(beat, section, error_type, tempo)
DemoTriggerError(beat_num, section, error_type, tempo, outcome) ==
    [sent |-> TRUE, outcome |-> outcome, error_type |-> error_type,
     beat |-> beat_num, section |-> section, tempo |-> tempo,
     returned |-> DemoTriggerReturn(outcome)]

-----------------------------------------------------------------------------
(* The structure functions called directly, on inputs drawn from bounded   *)
(* sets: the classification functions ("classify"), analyze() and the      *)
(* lookup by time on the one structure it gave ("analyzer"), the           *)
(* SongSimulator's structures and the lookup by beat on the one structure  *)
(* built ("simulator").                                                    *)

\* The largest total section count given to the classification functions
MaxTotalSections == 7

\* The most Spotify sections in an analysis given to analyze()
MaxAnalysisSections == 6

\* The most Spotify sections in an analysis given to the SongSimulator
MaxSpotifySections == 5

\* Loudness values on both sides of the -10 dB and -8 dB thresholds
Loudnesses == {-12, -10, -9, -5}

\* Song durations (duration_ms) given to analyze()
DurationsMs == {20000, 100000, 180000}

\* Durations of n Spotify sections given to the SongSimulator: a whole
\* number of beats (1000 ms) each, but for section `short` (if any), which is
\* shorter than a beat (300 ms)
SectionDurationsMs(n, short) ==
    [i \in 1..n |-> IF i = short THEN 300 ELSE 1000]

\* features['tempo'] values
FeatureTempos == {60, 120}

\* Track durations (track['duration_ms']) of the demo
TrackDurationsMs == {50000, 70000}

\* n Spotify sections of 10 s each, one after the other, with the loudness
\* the function `loud` gives each (times in seconds)
AnalysisSections(n, loud) ==
    [i \in 1..n |-> [start |-> 10 * (i - 1), duration |-> 10,
                     loudness |-> loud[i], tempo |-> 120]]

\* The song data given to analyze()
AnalyzerSongs ==
    { SongData("object", FALSE, 0, "object", AnalysisSections(n, loud), 180000) :
        n \in 0..MaxAnalysisSections, loud \in [1..MaxAnalysisSections -> {-12, -5}] }
    \cup { SongData(af, FALSE, 0, "absent", <<>>, d) :
        af \in {"absent", "object", "list"}, d \in DurationsMs }
    \cup { SongData("object", FALSE, 0, "list", <<>>, 180000) }

\* The sum of the first n durations
RECURSIVE StartOf(_, _)
StartOf(durations, n) ==
    IF n = 0 THEN 0 ELSE StartOf(durations, n - 1) + durations[n]

\* Spotify sections one after the other from 0, with the given durations and
\* loudness (times in milliseconds)
ContiguousSections(durations, loud) ==
    [i \in 1..Len(durations) |->
        [start |-> StartOf(durations, i - 1), duration |-> durations[i],
         loudness |-> loud[i]]]

\* The analyses given to create_song_structure_from_spotify
SpotifySectionLists ==
    UNION { { ContiguousSections(SectionDurationsMs(n, short), l) :
                short \in 0..n, l \in [1..n -> {-12, -9, -5}] } :
            n \in 0..MaxSpotifySections }

NoFnCall == [fn |-> "none", section_num |-> 0, total_sections |-> 0, loudness |-> 0]
NoAnalysis == [made |-> FALSE, source |-> "none", duration |-> 0, raised |-> FALSE,
               structure |-> <<>>]
NoLookup == [done |-> FALSE, at |-> 0, result |-> None]
NoStructure == [source |-> "none", sections |-> <<>>]
NoSectionInfo == [done |-> FALSE, beat |-> 0, index |-> 0]

FnFrame == UNCHANGED <<service, rsVars, fgVars, runVars, ctVars, thVars, spVars>>

\* SongStructureAnalyzer._classify_section(section_num, loudness, tempo, total)
ClassifyCall ==
    /\ service = "classify"
    /\ FnFrame
    /\ UNCHANGED <<analysis, anLookup, simVars>>
    /\ \E n \in 0..MaxTotalSections, i \in 0..MaxTotalSections, l \in Loudnesses :
        /\ fnCall' = [fn |-> "_classify_section", section_num |-> i,
                      total_sections |-> n, loudness |-> l]
        /\ fnRet' = ClassifySection(i, l, 120, n)

\* SongSimulator._determine_section_name(section_idx, total_sections, loudness)
DetermineNameCall ==
    /\ service = "classify"
    /\ FnFrame
    /\ UNCHANGED <<analysis, anLookup, simVars>>
    /\ \E n \in 0..MaxTotalSections, i \in 0..MaxTotalSections, l \in Loudnesses :
        /\ fnCall' = [fn |-> "_determine_section_name", section_num |-> i,
                      total_sections |-> n, loudness |-> l]
        /\ fnRet' = DetermineSectionName(i, n, l)

\* Which branch of analyze() a song takes
AnalysisSource(song_data) ==
    IF song_data.spotify_analysis = "object"
        THEN IF song_data.sections = <<>> THEN "default" ELSE "spotify"
    ELSE "estimated"

\* SongStructureAnalyzer.analyze(song_data)
AnalyzeCall ==
    /\ service = "analyzer"
    /\ ~analysis.made
    /\ FnFrame
    /\ UNCHANGED <<fnCall, fnRet, simVars>>
    /\ \E song \in AnalyzerSongs :
        /\ analysis' = [made |-> TRUE, source |-> AnalysisSource(song),
                        duration |-> song.duration_ms \div 1000,
                        raised |-> Analyze(song).raised,
                        structure |-> Analyze(song).structure]
        /\ anLookup' = NoLookup

\* The times at which the model looks a structure up: the start, the last
\* second and the end of every section
LookupTimes(sections) ==
    UNION { { sections[i].start,
              sections[i].start + sections[i].duration - 1,
              sections[i].start + sections[i].duration } : i \in 1..Len(sections) }

\* SongStructureAnalyzer.get_section_at_time(structure, time_seconds)
SectionAtTimeCall ==
    /\ service = "analyzer"
    /\ FnFrame
    /\ UNCHANGED <<fnCall, fnRet, analysis, simVars>>
    /\ analysis.made /\ ~analysis.raised
    /\ \E t \in LookupTimes(analysis.structure) \cup {0} :
        anLookup' = [done |-> TRUE, at |-> t,
                     result |-> GetSectionAtTime(analysis.structure, t)]

\* SongSimulator.create_song_structure()
CanonicalStructureCall ==
    /\ service = "simulator"
    /\ song_structure.source = "none"
    /\ FnFrame
    /\ UNCHANGED <<fnVars, simulator_tempo>>
    /\ song_structure' = [source |-> "canonical", sections |-> CreateSongStructure]
    /\ section_info' = NoSectionInfo

\* SongSimulator.create_song_structure_from_spotify(analysis, features, ms)
SpotifyStructureCall ==
    /\ service = "simulator"
    /\ song_structure.source = "none"
    /\ FnFrame
    /\ UNCHANGED fnVars
    /\ \E sections \in SpotifySectionLists, tempo \in FeatureTempos :
        /\ simulator_tempo' = tempo
        /\ song_structure' = [source |-> IF sections = <<>> THEN "canonical" ELSE "spotify",
                         sections |-> CreateSongStructureFromSpotify(sections, tempo)]
    /\ section_info' = NoSectionInfo

\* run_demo's fallback when the audio analysis is missing: the canonical
\* structure, its last end_beat set from the track duration
RescaledStructureCall ==
    /\ service = "simulator"
    /\ song_structure.source = "none"
    /\ FnFrame
    /\ UNCHANGED fnVars
    /\ \E ms \in TrackDurationsMs, tempo \in FeatureTempos :
        /\ simulator_tempo' = tempo
        /\ song_structure' = [source |-> "rescaled", sections |-> RescaledStructure(ms, tempo)]
    /\ section_info' = NoSectionInfo

\* The largest end_beat of a structure
RECURSIVE MaxEndBeat(_, _)
MaxEndBeat(sections, n) ==
    IF n = 0 THEN 0
    ELSE IF sections[n].end_beat > MaxEndBeat(sections, n - 1)
        THEN sections[n].end_beat
    ELSE MaxEndBeat(sections, n - 1)

\* SongSimulator.get_section_at_beat(structure, beat_num)
SectionAtBeatCall ==
    /\ service = "simulator"
    /\ FnFrame
    /\ UNCHANGED <<fnVars, simulator_tempo, song_structure>>
    /\ song_structure.source # "none"
    /\ \E b \in 0..(MaxEndBeat(song_structure.sections, Len(song_structure.sections)) + 1) :
        section_info' = [done |-> TRUE, beat |-> b,
                         index |-> GetSectionAtBeat(song_structure.sections, b)]

FnInit ==
    /\ fnCall = NoFnCall
    /\ fnRet = None
    /\ analysis = NoAnalysis
    /\ anLookup = NoLookup

\* SongSimulator(tempo=TEMPO), no structure built yet
SimInit ==
    /\ simulator_tempo = TEMPO
    /\ song_structure = NoStructure
    /\ section_info = NoSectionInfo

NextClassify ==
    \/ ClassifyCall
    \/ DetermineNameCall

NextAnalyzer ==
    \/ AnalyzeCall
    \/ SectionAtTimeCall

NextSimulator ==
    \/ CanonicalStructureCall
    \/ SpotifyStructureCall
    \/ RescaledStructureCall
    \/ SectionAtBeatCall

-----------------------------------------------------------------------------
(* demo_rhythm_errors.py: run_demo.                                        *)
(* dPc: "start", "ask_continue", "build", "confirm", "loop", "final",      *)
(* "summary", "done", "cancelled" (run_demo returned early), "crashed" (an *)
(* exception left run_demo).  The sleep of real-time mode changes no       *)
(* state and is not a step.                                                *)

\* The Spotify analyses the demo run fetches (times in milliseconds)
DemoAnalyses ==
    { <<>>,
      ContiguousSections(<<10000, 300, 9700>>, <<-12, -5, -12>>),
      ContiguousSections(<<4000, 4000, 4000, 4000, 4000>>, <<-12, -12, -5, -9, -12>>) }

NoDemoPost ==
    [sent |-> FALSE, outcome |-> None, error_type |-> None, beat |-> 0,
     section |-> None, tempo |-> 0, returned |-> None]

RunFrame == UNCHANGED <<service, rsVars, fgVars, fnVars, thVars, spVars>>

\* A variant of the health checks that asks whether to continue when
\* either service is down
DemoHealthChecksBothRequired ==
    /\ service = "demo" /\ dPc = "start"
    /\ RunFrame
    /\ \E healthy \in BOOLEAN, slogan \in BOOLEAN :
        /\ error_gen_healthy' = healthy
        /\ slogan_healthy' = slogan
        /\ dPc' = IF healthy /\ slogan THEN "build" ELSE "ask_continue"
    /\ UNCHANGED <<simVars, trigger_count, use_spotify, total_beats, beat,
                   triggers_sent, dPost, interrupted, ctVars, spotify_requests>>

\* check_service_health() and check_slogan_server_health(): a failed
\* slogan-server check only prints a note.
DemoHealthChecks ==
    /\ service = "demo" /\ dPc = "start"
    /\ RunFrame
    /\ \E healthy \in BOOLEAN, slogan \in BOOLEAN :
        /\ error_gen_healthy' = healthy
        /\ slogan_healthy' = slogan
        /\ dPc' = IF healthy THEN "build" ELSE "ask_continue"
    /\ UNCHANGED <<simVars, trigger_count, use_spotify, total_beats, beat,
                   triggers_sent, dPost, interrupted, ctVars, spotify_requests>>

\* input("Continue anyway ...? [y/N]: "): 'y', another answer, or Ctrl+C
\* (no try block is around this input)
DemoAskContinue ==
    /\ service = "demo" /\ dPc = "ask_continue"
    /\ RunFrame
    /\ \E answer \in {"y", "n", "interrupt"} :
        /\ dPc' = CASE answer = "y" -> "build"
                   [] answer = "n" -> "cancelled"
                   [] OTHER -> "crashed"
        /\ interrupted' = IF answer = "interrupt" THEN "continue_prompt"
                          ELSE interrupted
    /\ UNCHANGED <<simVars, trigger_count, use_spotify, error_gen_healthy, slogan_healthy,
                   spotify_requests,
                   total_beats, beat, triggers_sent, dPost, ctVars>>

\* The structure run_demo goes on with, total_beats computed from it
DemoUse(tempo, source, sections, spotify) ==
    /\ simulator_tempo' = tempo
    /\ song_structure' = [source |-> source, sections |-> sections]
    /\ total_beats' = CalculateSongDuration(sections)
    /\ use_spotify' = spotify
    /\ dPc' = "confirm"

\* How far run_demo gets with Spotify:
\*   "no_credentials"  authenticate() returns False without a request
\*   "auth_failed"     the token request fails
\*   "no_track"        the track is not found
\*   "no_features"     the audio features are not retrieved
\*   "no_analysis"     track and features fetched, no audio analysis
\*   "analysis"        track, features and audio analysis fetched
SpotifyFetches ==
    {"no_credentials", "auth_failed", "no_track", "no_features", "no_analysis",
     "analysis"}

\* The requests sent to Spotify on each of these paths: the token request,
\* the track, the audio features, the audio analysis
SpotifyRequestsSent(fetched) ==
    CASE fetched = "no_credentials" -> 0
      [] fetched = "auth_failed" -> 1
      [] fetched = "no_track" -> 2
      [] fetched = "no_features" -> 3
      [] OTHER -> 4

\* Create song structure (Spotify or simulated)
DemoBuildStructure ==
    /\ service = "demo" /\ dPc = "build"
    /\ RunFrame
    /\ UNCHANGED <<section_info, trigger_count, error_gen_healthy, slogan_healthy, beat,
                   triggers_sent, dPost, interrupted, ctVars>>
    /\ IF ~use_spotify
          THEN /\ DemoUse(simulator_tempo, "canonical", CreateSongStructure, FALSE)
               /\ UNCHANGED spotify_requests
       ELSE \E fetched \in SpotifyFetches :
             \E tempo \in FeatureTempos :
              \E ms \in TrackDurationsMs :
               \E sections \in DemoAnalyses :
                /\ spotify_requests' = spotify_requests + SpotifyRequestsSent(fetched)
                /\ CASE fetched = "no_analysis" ->
                        DemoUse(tempo, "rescaled", RescaledStructure(ms, tempo), TRUE)
                     [] fetched = "analysis" ->
                        DemoUse(tempo,
                                IF sections = <<>> THEN "canonical" ELSE "spotify",
                                CreateSongStructureFromSpotify(sections, tempo), TRUE)
                     [] OTHER ->
                        DemoUse(simulator_tempo, "canonical", CreateSongStructure, FALSE)

\* "Press Enter to start, or Ctrl+C to cancel..."
DemoConfirm ==
    /\ service = "demo" /\ dPc = "confirm"
    /\ RunFrame
    /\ \E key \in {"enter", "interrupt"} :
        /\ dPc' = IF key = "interrupt" THEN "cancelled"
                  ELSE IF total_beats > 0 THEN "loop" ELSE "final"
        /\ interrupted' = IF key = "interrupt" THEN "enter_prompt" ELSE interrupted
    /\ beat' = 0
    /\ triggers_sent' = 0
    /\ UNCHANGED <<simVars, trigger_count, use_spotify, error_gen_healthy, slogan_healthy,
                   spotify_requests,
                   total_beats, dPost, ctVars>>

\* One pass of `for beat in range(total_beats)`
DemoBeat ==
    /\ service = "demo" /\ dPc = "loop"
    /\ RunFrame
    /\ LET idx == GetSectionAtBeat(song_structure.sections, beat)
           sec == song_structure.sections[idx]
       IN
       /\ section_info' = [done |-> TRUE, beat |-> beat, index |-> idx]
       /\ IF beat > 0 /\ beat % BEATS_PER_TRIGGER = 0
             THEN \E outcome \in PostOutcomes :
                    LET post == DemoTriggerError(beat, sec.section, sec.error_type,
                                                 TEMPO, outcome) IN
                    /\ dPost' = post
                    /\ trigger_count' = IF post.returned = "True"
                                           THEN trigger_count + 1 ELSE trigger_count
                    /\ triggers_sent' = IF post.returned = "True"
                                           THEN triggers_sent + 1 ELSE triggers_sent
                    /\ trigger_calls' = trigger_calls + 1
                    /\ post_attempts' = post_attempts + DemoPostAttempts(outcome)
             ELSE UNCHANGED <<dPost, trigger_count, triggers_sent, ctVars>>
    /\ beat' = beat + 1
    /\ dPc' = IF beat + 1 < total_beats THEN "loop" ELSE "final"
    /\ UNCHANGED <<simulator_tempo, song_structure, use_spotify, error_gen_healthy, slogan_healthy,
                   spotify_requests,
                   total_beats, interrupted>>

\* "Trigger one final error at the end": the result of trigger_error is not
\* read, triggers_sent is incremented.
DemoFinalTrigger ==
    /\ service = "demo" /\ dPc = "final"
    /\ RunFrame
    /\ LET sec == song_structure.sections[Len(song_structure.sections)] IN
       \E outcome \in PostOutcomes :
         LET post == DemoTriggerError(total_beats, sec.section, sec.error_type,
                                      TEMPO, outcome) IN
         /\ dPost' = post
         /\ trigger_count' = IF post.returned = "True"
                                THEN trigger_count + 1 ELSE trigger_count
         /\ trigger_calls' = trigger_calls + 1
         /\ post_attempts' = post_attempts + DemoPostAttempts(outcome)
    /\ triggers_sent' = triggers_sent + 1
    /\ dPc' = "summary"
    /\ UNCHANGED <<simVars, use_spotify, error_gen_healthy, slogan_healthy,
                   spotify_requests, total_beats, beat,
                   interrupted>>

\* Variant: the loop is left on Ctrl+C but the end-of-song trigger is
\* still made
DemoInterruptStillFinal ==
    /\ service = "demo" /\ dPc \in {"loop", "final"}
    /\ RunFrame
    /\ dPc' = "final"
    /\ interrupted' = "loop"
    /\ UNCHANGED <<simVars, trigger_count, use_spotify, error_gen_healthy, slogan_healthy,
                   spotify_requests,
                   total_beats, beat, triggers_sent, dPost, ctVars>>

\* Ctrl+C inside the try block around the loop and the final trigger
DemoInterrupt ==
    /\ service = "demo" /\ dPc \in {"loop", "final"}
    /\ RunFrame
    /\ dPc' = "summary"
    /\ interrupted' = "loop"
    /\ UNCHANGED <<simVars, trigger_count, use_spotify, error_gen_healthy, slogan_healthy,
                   spotify_requests,
                   total_beats, beat, triggers_sent, dPost, ctVars>>

\* Print summary ("Demo interrupted by user" is printed before it when
\* Ctrl+C ended the loop), then run_demo returns
DemoSummary ==
    /\ service = "demo" /\ dPc = "summary"
    /\ RunFrame
    /\ dPc' = "done"
    /\ UNCHANGED <<simVars, trigger_count, use_spotify, error_gen_healthy, slogan_healthy,
                   spotify_requests,
                   total_beats, beat, triggers_sent, dPost, interrupted, ctVars>>

\* run_demo up to the health checks; use_spotify = bool(track name or uri)
RunInit ==
    /\ trigger_count = 0
    /\ dPc = "start"
    /\ error_gen_healthy = FALSE
    /\ slogan_healthy = FALSE
    /\ spotify_requests = 0
    /\ total_beats = 0
    /\ beat = 0
    /\ triggers_sent = 0
    /\ dPost = NoDemoPost
    /\ interrupted = None

NextDemo ==
    \/ DemoHealthChecks
    \/ DemoAskContinue
    \/ DemoBuildStructure
    \/ DemoConfirm
    \/ DemoBeat
    \/ DemoFinalTrigger
    \/ DemoInterrupt
    \/ DemoSummary

-----------------------------------------------------------------------------
(* demo_rhythm_errors.py: SpotifyClient.                                   *)
(* time.time() is the clock `now`; a method call is one step, during which *)
(* the token request, if one is made, may take a time unit.                *)

\* The latest clock value of a run
MaxTime == 3

\* data['expires_in'] of a token response
ExpiresIn == {1, 2}

\* data['access_token'] of a token response
Tokens == {"token_a", "token_b"}

\* What becomes of the POST to accounts.spotify.com/api/token: a 200 with
\* both keys, a 200 whose body lacks access_token (or is not JSON), a 200
\* whose body lacks expires_in, another status, a failed request
AuthOutcomes == {"200", "200_no_token", "200_no_expires_in", "non200", "exception"}

\* The methods that send a data request
DataMethods ==
    {"search_track", "get_track_by_uri", "get_audio_analysis", "get_audio_features"}

\* What becomes of a data request
DataOutcomes(method) ==
    {"200", "403", "404", "other_status", "timeout", "exception"}
    \cup (IF method = "search_track" THEN {"200_no_items"} ELSE {})

\* A variant of the test before a data request that looks at the token only
NeedsAuthenticationTokenOnly(token, expires, t) == token = None

\* `if not self.access_token or time.time() >= self.token_expires`
NeedsAuthentication(token, expires, t) == token = None \/ t >= expires

\* authenticate() at time t: whether the token request was sent, what the
\* client holds afterwards and what is returned.  A body without expires_in
\* raises KeyError after access_token was assigned.
Authenticate(credentials, token, expires, t, outcome, new_token, expires_in) ==
    IF ~credentials
        THEN [ok |-> FALSE, posted |-> FALSE, outcome |-> "no_credentials",
              token |-> token, expires |-> expires]
    ELSE IF outcome = "200"
        THEN [ok |-> TRUE, posted |-> TRUE, outcome |-> outcome,
              token |-> new_token, expires |-> t + expires_in]
    ELSE IF outcome = "200_no_expires_in"
        THEN [ok |-> FALSE, posted |-> TRUE, outcome |-> outcome,
              token |-> new_token, expires |-> expires]
    ELSE [ok |-> FALSE, posted |-> TRUE, outcome |-> outcome,
          token |-> token, expires |-> expires]

\* What a data method returns for each end of its request
DataResult(outcome) == IF outcome = "200" THEN "data" ELSE None

\* A method call.
\*   token_at_check, expires_at_check, checked_at: what the test before the
\*       data request read (data methods only)
\*   auth: how authenticate() ended (None: not called);  auth_at, issued,
\*       expires_in: the time it read, the token and lifetime it was given
\*   sent, bearer: whether the data request was sent, and with which token
SpCall(method, token_at_check, expires_at_check, checked_at, auth, auth_ok, auth_at, issued, expires_in, sent, bearer, outcome, result) ==
    [method |-> method, token_at_check |-> token_at_check,
     expires_at_check |-> expires_at_check, checked_at |-> checked_at,
     auth |-> auth, auth_ok |-> auth_ok, auth_at |-> auth_at, issued |-> issued,
     expires_in |-> expires_in, sent |-> sent, bearer |-> bearer,
     outcome |-> outcome, result |-> result]

NoSpCall == SpCall("none", None, 0, 0, None, FALSE, 0, None, 0, FALSE, None, None, None)

SpFrame ==
    UNCHANGED <<service, client_credentials, rsVars, fgVars, fnVars, simVars, runVars,
                ctVars, thVars>>

\* spotify_client.authenticate() called directly
SpAuthenticateCall ==
    /\ service = "spotify"
    /\ SpFrame
    /\ \E outcome \in AuthOutcomes, elapsed \in {0, 1}, new_token \in Tokens,
          expires_in \in ExpiresIn :
        LET a == Authenticate(client_credentials, access_token, token_expires,
                              now + elapsed, outcome, new_token, expires_in)
        IN
        /\ now + elapsed <= MaxTime
        /\ access_token' = a.token
        /\ token_expires' = a.expires
        /\ now' = IF a.posted THEN now + elapsed ELSE now
        /\ spCall' = SpCall("authenticate", None, 0, 0, a.outcome, a.ok,
                            IF a.posted THEN now + elapsed ELSE now,
                            IF a.ok THEN new_token ELSE None,
                            IF a.ok THEN expires_in ELSE 0,
                            FALSE, None, None, IF a.ok THEN "True" ELSE "False")

\* search_track, get_track_by_uri, get_audio_analysis, get_audio_features:
\* the test, authenticate() if it asks for it, then the data request with
\* the token held
SpDataCall ==
    /\ service = "spotify"
    /\ SpFrame
    /\ \E method \in DataMethods :
        IF NeedsAuthentication(access_token, token_expires, now)
           THEN \E outcome \in AuthOutcomes, elapsed \in {0, 1}, new_token \in Tokens,
                   expires_in \in ExpiresIn :
                 LET a == Authenticate(client_credentials, access_token, token_expires,
                                       now + elapsed, outcome, new_token, expires_in)
                     auth_at == IF a.posted THEN now + elapsed ELSE now
                 IN
                 /\ now + elapsed <= MaxTime
                 /\ access_token' = a.token
                 /\ token_expires' = a.expires
                 /\ now' = auth_at
                 /\ IF ~a.ok
                       \* `if not self.authenticate(): return None`
                       THEN spCall' = SpCall(method, access_token, token_expires, now,
                                             a.outcome, FALSE, auth_at, None, 0,
                                             FALSE, None, None, None)
                    ELSE \E data_outcome \in DataOutcomes(method) :
                          spCall' = SpCall(method, access_token, token_expires, now,
                                           a.outcome, TRUE, auth_at, new_token,
                                           expires_in, TRUE, a.token, data_outcome,
                                           DataResult(data_outcome))
        ELSE \E data_outcome \in DataOutcomes(method) :
              /\ UNCHANGED <<access_token, token_expires, now>>
              /\ spCall' = SpCall(method, access_token, token_expires, now,
                                  None, FALSE, 0, None, 0,
                                  TRUE, access_token, data_outcome,
                                  DataResult(data_outcome))

\* Time passes between two method calls
SpTick ==
    /\ service = "spotify"
    /\ SpFrame
    /\ now < MaxTime
    /\ now' = now + 1
    /\ UNCHANGED <<access_token, token_expires, spCall>>

\* SpotifyClient.__init__
SpInit ==
    /\ client_credentials \in BOOLEAN
    /\ access_token = None
    /\ token_expires = 0
    /\ now = 1
    /\ spCall = NoSpCall

NextSpotify ==
    \/ SpAuthenticateCall
    \/ SpDataCall
    \/ SpTick

-----------------------------------------------------------------------------
(* The specifications *)

Services ==
    {"rhythm", "threads", "fix", "classify", "analyzer", "simulator", "demo", "spotify"}

\* Every program in its state after start-up; the one that runs is chosen,
\* together with its configuration (the API key, the command line).
Init ==
    /\ service \in Services
    /\ RsInit
    /\ FgInit
    /\ FnInit
    /\ SimInit
    /\ RunInit
    /\ ThInit
    /\ SpInit
    /\ trigger_calls = 0
    /\ post_attempts = 0
    /\ use_spotify \in BOOLEAN
    /\ service # "fix" => ~deepseek_client
    /\ service # "demo" => ~use_spotify
    /\ service # "spotify" => ~client_credentials
    /\ service # "threads" => dispatch = "single"

Next ==
    \/ NextRhythm
    \/ NextThreads
    \/ NextFix
    \/ NextClassify
    \/ NextAnalyzer
    \/ NextSimulator
    \/ NextDemo
    \/ NextSpotify

Spec == Init /\ [][Next]_vars

\* One program at a time
InitRhythm == Init /\ service = "rhythm"
SpecRhythm == InitRhythm /\ [][NextRhythm]_vars

InitThreads == Init /\ service = "threads"
SpecThreads == InitThreads /\ [][NextThreads]_vars

InitFix == Init /\ service = "fix"
SpecFix == InitFix /\ [][NextFix]_vars

InitClassify == Init /\ service = "classify"
SpecClassify == InitClassify /\ [][NextClassify]_vars

InitAnalyzer == Init /\ service = "analyzer"
SpecAnalyzer == InitAnalyzer /\ [][NextAnalyzer]_vars

InitSimulator == Init /\ service = "simulator"
SpecSimulator == InitSimulator /\ [][NextSimulator]_vars

InitDemo == Init /\ service = "demo"
SpecDemo == InitDemo /\ [][NextDemo]_vars

InitSpotify == Init /\ service = "spotify"
SpecSpotify == InitSpotify /\ [][NextSpotify]_vars


\* The two web services
InitServices == Init /\ service \in {"rhythm", "fix"}
NextServices == NextRhythm \/ NextFix
SpecServices == InitServices /\ [][NextServices]_vars

\* analyze() and the SongSimulator's structures
InitStructures == Init /\ service \in {"analyzer", "simulator"}
NextStructures == NextAnalyzer \/ NextSimulator
SpecStructures == InitStructures /\ [][NextStructures]_vars

\* The two programs that trigger errors
InitTriggers == Init /\ service \in {"rhythm", "demo"}
NextTriggers == NextRhythm \/ NextDemo
SpecTriggers == InitTriggers /\ [][NextTriggers]_vars

-----------------------------------------------------------------------------
(* The properties *)

\* The section-to-error-type table of the specification
SectionErrorTable ==
    [intro |-> "minimal", verse |-> "basic", chorus |-> "business",
     bridge |-> "chaotic", outro |-> "philosophical"]

\* C1: every request to the fix generator and the rhythm controller that
\* fails is answered with a JSON body carrying a message string and status
\* 400 or 500, and no exception leaves a handler.
C1_FailuresAreJsonErrors ==
    /\ rsResp.status # 0 =>
        /\ ~rsResp.escaped
        /\ rsResp.body = "json"
        /\ rsResp.status \in {200, 400, 500}
        /\ rsResp.status # 200 => rsResp.error
    /\ fgResp.status # 0 =>
        /\ fgResp.body = "json"
        /\ fgResp.status \in {200, 400, 500}
        /\ fgResp.status # 200 => fgResp.has_error_message

\* A template with every {slogan} placeholder replaced by the slogan and
\* nothing else changed
RECURSIVE ReplacePlaceholder(_, _, _)
ReplacePlaceholder(text, i, slogan) ==
    IF i > Len(text) THEN <<>>
    ELSE IF i + 2 <= Len(text) /\ SubSeq(text, i, i + 2) = <<"{", "slogan", "}">>
        THEN slogan \o ReplacePlaceholder(text, i + 3, slogan)
    ELSE <<text[i]>> \o ReplacePlaceholder(text, i + 1, slogan)

\* C2: with no hosted-model client, generate_satirical_fix never raises and
\* returns the template drawn, its {slogan} placeholder replaced by the
\* slogan and nothing else changed, for each of the three templates.
C2_FallbackSubstitutesSlogan ==
    (fgCall.called /\ fgCall.hosted_calls = 0) =>
        /\ fgCall.choice \in 1..3
        /\ fgCall.raised = None
        /\ fgCall.text = ReplacePlaceholder(FALLBACK_FIXES[fgCall.choice], 1, fgCall.slogan)

\* The calls of _classify_section the table speaks of: N >= 1, 0 <= i < N
ClassifyInRange ==
    /\ fnCall.fn = "_classify_section"
    /\ fnCall.total_sections >= 1
    /\ fnCall.section_num \in 0..(fnCall.total_sections - 1)

\* C3 as stated: _classify_section follows the ordered table intro, outro,
\* chorus (loudness > -10), bridge for 0.6*N <= i < N-1 with the lower bound
\* included, verse.
C3_ClassifyInclusiveBridge ==
    ClassifyInRange =>
        LET i == fnCall.section_num
            n == fnCall.total_sections
        IN fnRet = CASE i = 0 -> "intro"
                     [] i # 0 /\ i = n - 1 -> "outro"
                     [] i # 0 /\ i # n - 1 /\ fnCall.loudness > -10 -> "chorus"
                     [] i # 0 /\ i # n - 1 /\ fnCall.loudness <= -10
                            /\ 5 * i >= 3 * n /\ i < n - 1 -> "bridge"
                     [] OTHER -> "verse"

\* C3 as amended: the same table with bridge for 0.6*N < i < N-1, the lower
\* bound excluded (i = 0.6*N gives verse).
C3_ClassifyStrictBridge ==
    ClassifyInRange =>
        LET i == fnCall.section_num
            n == fnCall.total_sections
        IN fnRet = CASE i = 0 -> "intro"
                     [] i # 0 /\ i = n - 1 -> "outro"
                     [] i # 0 /\ i # n - 1 /\ fnCall.loudness > -10 -> "chorus"
                     [] i # 0 /\ i # n - 1 /\ fnCall.loudness <= -10
                            /\ 5 * i > 3 * n /\ i < n - 1 -> "bridge"
                     [] OTHER -> "verse"

\* C3 witness: a quiet section exactly at index 0.6*N (3 of 5) was classified
\* and came out as a verse.
C3_Witness ==
    /\ fnCall = [fn |-> "_classify_section", section_num |-> 3,
                 total_sections |-> 5, loudness |-> -12]
    /\ fnRet = "verse"

\* C4: _classify_section and _determine_section_name return one of the five
\* labels for any index, any total and any loudness.
C4_ClassificationTotal ==
    fnCall.fn # "none" => fnRet \in Labels

\* C4 witness: a call that fell through every rule but the last: a quiet
\* section, neither first nor among the last, in the bridge range.
C4_Witness ==
    /\ fnCall.fn = "_classify_section"
    /\ fnCall.section_num > 0
    /\ fnCall.section_num < fnCall.total_sections - 1
    /\ fnCall.loudness <= -10
    /\ fnRet = "bridge"

\* C5: get_section_at_beat(structure, S.start_beat) returns S, for every
\* section S of every structure the demo can build.
C5_LookupRoundTrips ==
    section_info.done =>
        \A i \in 1..Len(song_structure.sections) :
            song_structure.sections[i].start_beat = section_info.beat
                => section_info.index = i

\* Sections that start at 0, follow one another without a gap and end at d
CoversDuration(sections, d) ==
    /\ sections # <<>>
    /\ sections[1].start = 0
    /\ \A i \in 1..(Len(sections) - 1) :
        /\ sections[i].start <= sections[i + 1].start
        /\ sections[i].start + sections[i].duration = sections[i + 1].start
    /\ sections[Len(sections)].start + sections[Len(sections)].duration = d
    /\ \A t \in 0..(d - 1) :
        Cardinality({ i \in 1..Len(sections) :
            sections[i].start <= t /\ t < sections[i].start + sections[i].duration }) = 1

\* C6: the section lists of _estimate_structure and _default_structure are
\* sorted by start and cover [0, duration) without gap or overlap (the
\* default structure's duration being its own 150 s).
C6_StructureCoversDuration ==
    (analysis.made /\ ~analysis.raised /\ analysis.source \in {"estimated", "default"}) =>
        CoversDuration(analysis.structure,
                       IF analysis.source = "default" THEN 150 ELSE analysis.duration)

\* The section a /api/beat-trigger request asks for ('verse' when absent)
RequestedSection ==
    IF rsReq.section = None THEN "verse" ELSE rsReq.section

\* The table's image of a section value, "basic" for a value outside it
TableErrorType(section) ==
    IF section \in DOMAIN SectionErrorTable THEN SectionErrorTable[section] ELSE "basic"

\* C7: get_error_type_for_section is the section-to-error-type table with
\* "basic" for any other value, and the error_type that /api/beat-trigger
\* returns and POSTs is the table's value for the request's section.
C7_BeatTriggerUsesTable ==
    /\ \A s \in SectionInputs : GetErrorTypeForSection(s) = TableErrorType(s)
    /\ rsPost.sent =>
        /\ rsReq.endpoint = "beat-trigger"
        /\ rsPost.section = RequestedSection
        /\ rsPost.error_type = TableErrorType(RequestedSection)
    /\ (rsReq.endpoint = "beat-trigger" /\ rsResp.status = 200) =>
        /\ rsPost.sent
        /\ rsResp.fields.section = RequestedSection
        /\ rsResp.fields.error_type = TableErrorType(RequestedSection)

\* C7 witness: a bridge beat was triggered and answered with "chaotic".
C7_Witness ==
    /\ rsReq.endpoint = "beat-trigger"
    /\ rsReq.section = "bridge"
    /\ rsResp.status = 200
    /\ rsResp.fields.error_type = "chaotic"
    /\ rsPost.sent /\ rsPost.error_type = "chaotic"

\* C8: in every structure the demo builds each section's error_type is the
\* table's image of its label, and so is the error_type of every payload.
C8_DemoFollowsTable ==
    /\ \A i \in 1..Len(song_structure.sections) :
        song_structure.sections[i].section \in Labels =>
            song_structure.sections[i].error_type
                = SectionErrorTable[song_structure.sections[i].section]
    /\ (dPost.sent /\ dPost.section \in Labels) =>
            dPost.error_type = SectionErrorTable[dPost.section]

C10_TriggerReturnsBoolean ==
    /\ rsPost.sent =>
        rsPost.returned = IF rsPost.outcome \in {"200_object", "200_not_object"}
                             THEN "True" ELSE "False"
    /\ dPost.sent =>
        dPost.returned = IF dPost.outcome \in {"200_object", "200_not_object"}
                            THEN "True" ELSE "False"


\* C11: every call of a trigger operation, in the rhythm service and in the
\* demo, makes exactly one POST to /api/rhythm-trigger and a failed POST is
\* not sent again: the POST attempts of a run are as many as its trigger
\* calls.
C11_OnePostPerTrigger ==
    /\ post_attempts = trigger_calls
    /\ rsPost.sent => trigger_calls >= 1
    /\ dPost.sent => trigger_calls >= 1

\* C11 witness: the demo has called trigger_error twice or more, the last
\* POST having failed.
C11_Witness ==
    /\ dPost.sent
    /\ dPost.outcome \in {"non200", "timeout", "connection_error"}
    /\ trigger_calls >= 2

\* A POST is made only in a step that handles a /api/beat-trigger request,
\* and that step makes one.
PostOnlyInBeatTrigger ==
    [][(post_attempts' # post_attempts \/ rsPost'.sent) =>
            /\ rsReq'.endpoint = "beat-trigger"
            /\ rsPost'.sent
            /\ post_attempts' = post_attempts + 1]_vars

OwnPayload(t) ==
    thPost[t].sent =>
        /\ thPost[t].section = thReq[t].section
        /\ thPost[t].error_type = TableErrorType(thReq[t].section)

\* C13: when /api/beat-trigger handlers run one at a time, the payload
\* POSTed for a request carries that request's own section and the error
\* type mapped from it; with two concurrent handlers some interleaving
\* breaks this (the witness).
C13_SafeUnderSingleDispatch ==
    dispatch = "single" => \A t \in Threads : OwnPayload(t)

\* C13 witness: under threaded dispatch a handler has POSTed a payload whose
\* section is the other request's, with the error type of its own section.
C13_Witness ==
    /\ dispatch = "threaded"
    /\ \E t \in Threads :
        /\ thPost[t].sent
        /\ thPost[t].section # thReq[t].section
        /\ \E u \in Threads \ {t} : thPost[t].section = thReq[u].section
        /\ thPost[t].error_type = TableErrorType(thReq[t].section)


\* The section get_section_at_beat gives for a beat of the structure in use
SectionOfBeat(beat_num) ==
    song_structure.sections[GetSectionAtBeat(song_structure.sections, beat_num)]

\* Triggers are made one at a time and at strictly increasing beats
IncreasingBeats ==
    [][trigger_calls' # trigger_calls =>
            /\ trigger_calls' = trigger_calls + 1
            /\ dPost'.sent
            /\ dPost.sent => dPost'.beat > dPost.beat]_vars

\* C14: in every run of the demo the health check precedes every trigger
\* POST, triggers are POSTed one at a time at strictly increasing beats, and
\* each carries the section (and its error type) that get_section_at_beat
\* gives for its beat.
C14_TriggersFollowBeats ==
    /\ [](dPost.sent => dPc \in {"loop", "final", "summary", "done"})
    /\ IncreasingBeats
    /\ [](dPost.sent =>
            /\ dPost.section = SectionOfBeat(dPost.beat).section
            /\ dPost.error_type = SectionOfBeat(dPost.beat).error_type)


\* The beats at which the demo is said to trigger
TriggerBeat(b) ==
    \/ 0 < b /\ b < total_beats /\ b % BEATS_PER_TRIGGER = 0
    \/ b = total_beats

\* A pass of the beat loop attempts a trigger exactly at the multiples of 16
LoopTriggersAtMultiples ==
    [][(dPc = "loop" /\ beat' = beat + 1) =>
            (trigger_calls' = trigger_calls + 1
                <=> (beat > 0 /\ beat % BEATS_PER_TRIGGER = 0))]_vars

\* C15: the demo triggers an error every 16 beats: a trigger is attempted
\* only at beats b with 0 < b < total_beats and b mod 16 = 0 and at beat
\* total_beats, every such pass of the loop attempts one, and after a full
\* uninterrupted run the number of attempts equals the 'Expected Triggers'
\* value of the summary, (total_beats // 16) + 1.
C15_TriggerEverySixteenBeats ==
    /\ [](dPost.sent => TriggerBeat(dPost.beat))
    /\ LoopTriggersAtMultiples
    /\ []((dPc \in {"summary", "done"} /\ interrupted = None)
            => trigger_calls = ExpectedTriggers(total_beats))


\* Once Ctrl+C was pressed no trigger is attempted any more
NoTriggerAfterInterrupt ==
    [][interrupted # None => /\ trigger_calls' = trigger_calls
                             /\ dPost' = dPost
                             /\ interrupted' = interrupted]_vars

\* C16 (as stated): a keyboard interrupt is the demo's only cancellation:
\* the run is cancelled before the beat loop only by an interrupt.
C16_InterruptOnlyCancellation ==
    dPc = "cancelled" => interrupted # None

\* C16 (amended): an interrupt at the 'Press Enter' prompt ends the run
\* before any trigger is sent; an interrupt during the beat loop stops the
\* loop so that no trigger (the final one included) is sent afterwards, and
\* the demo then prints the summary and returns without raising; an
\* interrupt at the 'Continue anyway' prompt is not caught, and answering
\* anything but 'y' there cancels the demo as well.
C16_InterruptStopsTriggers ==
    /\ [](interrupted = "enter_prompt" => (dPc = "cancelled" /\ trigger_calls = 0))
    /\ [](interrupted = "loop" => dPc \in {"summary", "done"})
    /\ [](interrupted = "continue_prompt" => (dPc = "crashed" /\ trigger_calls = 0))
    /\ [](dPc = "crashed" => interrupted = "continue_prompt")
    /\ [](dPc = "cancelled" => (trigger_calls = 0 /\ (interrupted = None => ~error_gen_healthy)))
    /\ NoTriggerAfterInterrupt

\* The loop was interrupted after a trigger and before the last beat, and the
\* demo returned after the summary
C16_Witness ==
    /\ interrupted = "loop"
    /\ dPc = "done"
    /\ trigger_calls >= 1
    /\ beat < total_beats


\* The body of the last /api/generate-fix request was a JSON object
FixRequestIsObject == fgReq.json \in {"object", "empty_object"}

C18_PathByConfiguration ==
    /\ fgCall.called =>
            fgCall.hosted_calls = (IF deepseek_client THEN 1 ELSE 0)
    /\ fgReq.json = "health" => fgResp.deepseek_available = deepseek_client
    /\ (fgCall.called /\ ~deepseek_client) =>
            /\ fgCall.raised = None
            /\ \E k \in 1..Len(FALLBACK_FIXES) :
                 fgCall.text = ReplacePlaceholder(FALLBACK_FIXES[k], 1, fgCall.slogan)

\* C19: when a client is configured and the chat-completion call raises,
\* generate_satirical_fix does not propagate an error but returns one of the
\* fallback templates with the slogan substituted, and /api/generate-fix
\* answers 200 with success true, whichever template is drawn.
C19_HostedFailureFallsBack ==
    (fgCall.called /\ deepseek_client /\ fgCall.hosted = "raises") =>
        /\ fgCall.hosted_calls = 1
        /\ fgCall.choice \in 1..Len(FALLBACK_FIXES)
        /\ fgCall.raised = None
        /\ fgCall.text = ReplacePlaceholder(FALLBACK_FIXES[fgCall.choice], 1, fgCall.slogan)
        /\ fgResp.status = 200
        /\ fgResp.success
        /\ fgResp.fix = fgCall.text


\* A request of one of the two endpoints that hand song data to the
\* controller
TempoRequest(req) == req.endpoint \in {"analyze-song", "start-rhythm-mode"}

\* The tempo a request carries in audio_features.tempo, 120 when it carries
\* none
CarriedTempo(req) == IF req.song.has_tempo THEN req.song.tempo ELSE 120

\* The request gets as far as the assignment of current_tempo:
\* /api/analyze-song needs a non-empty JSON object, /api/start-rhythm-mode a
\* JSON object whose song_data, when present, is an object; audio_features,
\* when present, must be an object
ReachesTempoAssignment(req) ==
    /\ req.song.audio_features # "list"
    /\ \/ req.endpoint = "analyze-song" /\ req.json = "object"
       \/ /\ req.endpoint = "start-rhythm-mode"
          /\ req.json \in {"object", "empty_object"}
          /\ req.song_kind # "list"

\* A beat interval was reported by the last response
IntervalReported ==
    /\ rsReq.endpoint \in {"analyze-song", "start-rhythm-mode", "status"}
    /\ rsResp.status = 200

\* Every reported beat interval is 60 / current_tempo seconds (in
\* microseconds), 0.5 s at tempo 120, and only the two song endpoints change
\* the tempo
ReportedIntervalIsSixtyOverTempo ==
    /\ [](IntervalReported =>
            /\ rsResp.fields.tempo = current_tempo
            /\ rsResp.fields.beat_interval * current_tempo = MicrosPerMinute
            /\ current_tempo = 120 => rsResp.fields.beat_interval = 500000)
    /\ [][~TempoRequest(rsReq') => current_tempo' = current_tempo]_vars

\* C20 (as stated): the tempo behind the reported beat interval is the one
\* carried by the most recent analyze-song or start-rhythm-mode request,
\* 120 if that request carried none and 120 before any request; the
\* interval reported is 60 / T seconds, 0.5 s for tempo 120.
C20_IntervalOfLastRequest ==
    /\ [](rsReq = NoRequest => current_tempo = 120)
    /\ [][TempoRequest(rsReq') => current_tempo' = CarriedTempo(rsReq')]_vars
    /\ ReportedIntervalIsSixtyOverTempo

\* C20 (amended): the tempo behind the reported beat interval is the one
\* carried by the most recent analyze-song or start-rhythm-mode request
\* that reached the controller's tempo assignment (120 if it carried none,
\* 120 before any request); a request rejected earlier leaves the tempo as
\* it was; whenever an interval is reported it is 60 / T seconds, 0.5 s for
\* tempo 120.
C20_IntervalOfLastAcceptedRequest ==
    /\ [](rsReq = NoRequest => current_tempo = 120)
    /\ [][TempoRequest(rsReq') =>
            current_tempo' = IF ReachesTempoAssignment(rsReq')
                                THEN CarriedTempo(rsReq') ELSE current_tempo]_vars
    /\ ReportedIntervalIsSixtyOverTempo

\* /api/status reports one second per beat after a request carrying tempo 60
C20_Witness ==
    /\ rsReq.endpoint = "status"
    /\ rsResp.status = 200
    /\ current_tempo = 60
    /\ rsResp.fields.tempo = 60
    /\ rsResp.fields.beat_interval = 1000000


\* The sections of the structure in use whose [start_beat, end_beat) holds b
SectionsHolding(b) ==
    { i \in 1..Len(song_structure.sections) :
        /\ song_structure.sections[i].start_beat <= b
        /\ b < song_structure.sections[i].end_beat }

\* C21: in the canonical 10-section structure every beat 0..127 lies in
\* exactly one section's [start_beat, end_beat) and get_section_at_beat
\* returns that section; beat 32 falls in 'chorus'; a beat at or past 128
\* yields the last section, the outro.
C21_CanonicalBeatLookup ==
    (song_structure.source = "canonical" /\ section_info.done) =>
        LET b == section_info.beat
            idx == section_info.index
        IN
        /\ Len(song_structure.sections) = 10
        /\ b \in 0..127 => SectionsHolding(b) = {idx}
        /\ b = 32 => song_structure.sections[idx].section = "chorus"
        /\ b >= 128 => /\ idx = 10
                       /\ song_structure.sections[idx].section = "outro"

\* Beat 32 of the canonical structure was looked up
C21_Witness ==
    /\ song_structure.source = "canonical"
    /\ section_info.done
    /\ section_info.beat = 32
    /\ song_structure.sections[section_info.index].section = "chorus"


\* The sections of the analysed structure whose [start, start + duration)
\* holds the time t
SectionsAtTime(t) ==
    { i \in 1..Len(analysis.structure) :
        /\ analysis.structure[i].start <= t
        /\ t < analysis.structure[i].start + analysis.structure[i].duration }

\* C22: for a structure returned by analyze() and a time t,
\* get_section_at_time returns the type of the section whose
\* [start, start + duration) holds t; it answers with the last section's
\* type without such a section only when t is at or after the end of the
\* last section, and with 'verse' without such a section only when the
\* structure is empty.
C22_LookupByTime ==
    anLookup.done =>
        LET s == analysis.structure
            t == anLookup.at
            last == s[Len(s)]
        IN
        /\ SectionsAtTime(t) # {} =>
                \E i \in SectionsAtTime(t) : anLookup.result = s[i].type
        /\ (SectionsAtTime(t) = {} /\ s # <<>>) =>
                /\ anLookup.result = last.type
                /\ t >= last.start + last.duration
        /\ (SectionsAtTime(t) = {} /\ s = <<>>) => anLookup.result = "verse"


\* C23: a Rhythm Controller request answered with an error status (400 or
\* 500) leaves current_tempo and current_section as they were, for
\* /api/analyze-song, /api/start-rhythm-mode and /api/beat-trigger with any
\* body.
C23_ErrorLeavesStateUnchanged ==
    [][(/\ rsReq'.endpoint \in {"analyze-song", "start-rhythm-mode", "beat-trigger"}
        /\ rsResp'.status \in {400, 500})
            => /\ current_tempo' = current_tempo
               /\ current_section' = current_section]_vars


\* C24: the /api/beat-trigger response reports triggered = true only if the
\* POST to /api/rhythm-trigger was answered with HTTP 200; when the POST
\* fails, times out or gets another status the response does not say the
\* trigger happened.
C24_TriggeredOnlyIfAccepted ==
    (rsReq.endpoint = "beat-trigger" /\ rsResp.fields.triggered) =>
        /\ rsPost.sent
        /\ rsPost.outcome \in {"200_object", "200_not_object"}


\* C25: at the end of every demo run the 'Triggers Sent' count
\* (triggers_sent) equals the number of trigger POSTs answered with HTTP
\* 200, which is RhythmErrorTrigger.trigger_count, whichever POSTs fail, the
\* final end-of-song trigger included.
C25_TriggersSentCountsAccepted ==
    dPc \in {"summary", "done"} => triggers_sent = trigger_count


\* C26: the tempo in every trigger payload sent by the demo equals the
\* tempo the run uses for its beat duration and pacing (simulator.tempo), in
\* simulation mode and when the tempo came from Spotify audio features.
C26_PayloadTempoIsRunTempo ==
    dPost.sent => dPost.tempo = simulator_tempo


\* The test before the last data request found no token, or found the clock
\* at or past token_expires
TokenMissingOrExpired ==
    \/ spCall.token_at_check = None
    \/ spCall.checked_at >= spCall.expires_at_check

\* C27: SpotifyClient sends no data request without a token that was
\* unexpired when checked: a data method authenticates first exactly when
\* there is no token or the time is at or past token_expires; if that
\* authentication fails it returns None and sends nothing; otherwise the
\* request carries the token the client holds; a successful authentication
\* stores the new token with the expiry now + expires_in.
C27_NoRequestWithoutCheckedToken ==
    /\ spCall.method \in DataMethods =>
        /\ TokenMissingOrExpired <=> spCall.auth # None
        /\ (TokenMissingOrExpired /\ ~spCall.auth_ok) =>
                (~spCall.sent /\ spCall.result = None)
        /\ spCall.sent =>
                /\ spCall.bearer # None
                /\ spCall.bearer = access_token
                /\ IF TokenMissingOrExpired
                      THEN spCall.auth_ok /\ spCall.bearer = spCall.issued
                      ELSE /\ spCall.bearer = spCall.token_at_check
                           /\ spCall.checked_at < spCall.expires_at_check
    /\ spCall.auth_ok =>
        /\ spCall.auth = "200"
        /\ access_token = spCall.issued
        /\ token_expires = spCall.auth_at + spCall.expires_in

\* A data method found its token expired, authenticated again and then sent
\* its request with the new token
C27_Witness ==
    /\ spCall.method \in DataMethods
    /\ spCall.token_at_check # None
    /\ spCall.checked_at >= spCall.expires_at_check
    /\ spCall.auth_ok
    /\ spCall.sent
    /\ spCall.bearer = access_token


\* The error generator was down and the answer to 'Continue anyway' was not
\* 'y': run_demo returned there, or Ctrl+C at that prompt ended it
NotContinued ==
    \/ dPc = "cancelled" /\ interrupted = None
    \/ interrupted = "continue_prompt"

\* C28: if the error generator's health check fails and the user does not
\* answer 'y' to the continue prompt, the demo ends there without any
\* trigger POST and without a request to Spotify; a failed slogan-server
\* health check alone never stops the run.
C28_NotContinuedSendsNothing ==
    /\ [](NotContinued =>
            /\ ~error_gen_healthy
            /\ trigger_calls = 0 /\ post_attempts = 0 /\ ~dPost.sent
            /\ spotify_requests = 0)
    /\ [][~NotContinued]_vars
    /\ [][(dPc = "ask_continue" /\ dPc' # "build") => NotContinued']_vars
    /\ [][(dPc = "start" /\ error_gen_healthy') => dPc' = "build"]_vars
    /\ [](dPc = "ask_continue" => ~error_gen_healthy)
    /\ []((error_gen_healthy /\ dPc \in {"cancelled", "crashed"})
            => interrupted = "enter_prompt")

\* The demo was started for a Spotify track, the error generator was down
\* and the answer was not 'y'
C28_Witness ==
    /\ dPc = "cancelled" /\ interrupted = None
    /\ ~error_gen_healthy
    /\ use_spotify


\* Beat ranges of a structure are well formed: no section ends before it
\* starts, starts do not decrease, and each section starts where the one
\* before it ends
WellFormedBeatRanges(sections) ==
    /\ \A i \in 1..Len(sections) : sections[i].start_beat <= sections[i].end_beat
    /\ \A i \in 2..Len(sections) :
        /\ sections[i - 1].start_beat <= sections[i].start_beat
        /\ sections[i].start_beat = sections[i - 1].end_beat

\* C29: every structure the demo runs with has well-formed beat ranges: the
\* canonical structure, the structures derived from contiguous Spotify
\* sections by truncating start and duration to beats, and the canonical
\* structure after its last end_beat was overwritten with the track's total
\* beats.
C29_WellFormedBeatRanges ==
    song_structure.source # "none" => WellFormedBeatRanges(song_structure.sections)


\* C30: no Rhythm Controller operation changes beat_count or current_song:
\* after any sequence of requests /api/status, when it answers, still
\* reports beat_count = 0 and current_song = null; the tempo changes only
\* while an analyze-song or start-rhythm-mode request is handled and
\* current_section only while a beat-trigger request is handled.
C30_OnlyTempoAndSectionChange ==
    /\ [](beat_count = 0 /\ current_song = None)
    /\ []((rsReq.endpoint = "status" /\ rsResp.status = 200) =>
            /\ rsResp.fields.beat_count = 0
            /\ rsResp.fields.current_song = None
            /\ rsResp.fields.tempo = current_tempo
            /\ rsResp.fields.current_section = current_section)
    /\ [][current_tempo' # current_tempo =>
            rsReq'.endpoint \in {"analyze-song", "start-rhythm-mode"}]_vars
    /\ [][current_section' # current_section =>
            rsReq'.endpoint = "beat-trigger"]_vars

\* /api/status answers after the tempo and the section were changed and a
\* trigger with beat_num 2 was handled
C30_Witness ==
    /\ rsReq.endpoint = "status"
    /\ rsResp.status = 200
    /\ current_tempo = 60
    /\ current_section = "chorus"
    /\ trigger_calls >= 1
    /\ rsResp.fields.beat_count = 0
    /\ rsResp.fields.current_song = None

=============================================================================
